---- MODULE Spec2Model ----
(***************************************************************************)
(* A model of the two optimizers of pytorch_optimizer/optimizer:           *)
(* AdaBound (adabound.py) and Yogi (yogi.py).                              *)
(*                                                                         *)
(* Every parameter is a one-element tensor: all tensor operations of the   *)
(* two step() methods are elementwise, so one element shows them.  A       *)
(* float is a fixed-point number, an integer count of 1/Scale units;       *)
(* every product, quotient and square root rounds to the nearest unit,     *)
(* symmetrically in the sign, as IEEE rounding is.                         *)
(***************************************************************************)
EXTENDS Integers, Sequences, FiniteSets, TLC

VARIABLES
    variant,       \* "AdaBound" or "Yogi": the class that was constructed
    constructed,   \* FALSE when the constructor raised
    maximize,      \* Yogi: self.maximize; AdaBound: the keyword that was passed
    defaults,      \* Optimizer.defaults
    param_groups,  \* self.param_groups: a sequence of group dicts
    base_lrs,      \* AdaBound: self.base_lrs
    state,         \* self.state: parameter -> dict (empty dict = no entry)
    p,             \* the parameters' values
    grad,          \* the parameters' .grad: none, dense or sparse
    err,           \* the exception the last call raised, or "none"
    last_op,       \* the last call on the optimizer: "step", "reset" or "other"
    visited,       \* last step(): the parameters whose gradient it looked at
    log            \* last step(): one record per parameter it began to update

vars == << variant, constructed, maximize, defaults, param_groups, base_lrs,
           state, p, grad, err, last_op, visited, log >>

-----------------------------------------------------------------------------
(* Bounds of the model.                                                    *)

\* fixed-point units per 1.0
Scale == 1000
\* step() is not called once a group's counter has reached MaxStep
MaxStep == 2

-----------------------------------------------------------------------------
(* Float arithmetic.                                                       *)

One == Scale

\* the float n/d
F(n, d) == (n * Scale) \div d

Abs(x) == IF x < 0 THEN -x ELSE x

Sgn(x) == IF x > 0 THEN 1 ELSE IF x < 0 THEN -1 ELSE 0

Min(a, b) == IF a <= b THEN a ELSE b

Max(a, b) == IF a >= b THEN a ELSE b

\* n/d for d > 0, rounded to nearest, ties away from zero
Rnd(n, d) ==
    LET q == Abs(n) \div d
        r == Abs(n) % d
    IN  Sgn(n) * (IF 2 * r >= d THEN q + 1 ELSE q)

\* a * b
Mul(a, b) == Rnd(a * b, Scale)

\* a / b for b # 0
Div(a, b) == IF b > 0 THEN Rnd(a * Scale, b) ELSE Rnd(-(a * Scale), -b)

RECURSIVE ISqrtBetween(_, _, _)
\* the largest r in lo..hi with r*r <= n, given lo*lo <= n
ISqrtBetween(n, lo, hi) ==
    IF lo >= hi THEN lo
    ELSE LET mid == (lo + hi + 1) \div 2
         IN  IF mid * mid <= n THEN ISqrtBetween(n, mid, hi)
             ELSE ISqrtBetween(n, lo, mid - 1)

\* sqrt(a) for a >= 0; torch gives nan below zero, which no run of the code
\* reaches for the second moments (they stay >= 0)
Sqrt(a) == IF a <= 0 THEN 0 ELSE ISqrtBetween(a * Scale, 0, 46340)

RECURSIVE Pow(_, _)
\* b ** n for an integer n >= 0
Pow(b, n) == IF n = 0 THEN One ELSE Mul(b, Pow(b, n - 1))

\* a clamp that forgets the upper limit
Clamp_NoUpper(x, lo, hi) == Max(x, lo)

\* Tensor.clamp_(lo, hi): max(lo) first, then min(hi)
Clamp(x, lo, hi) == Min(Max(x, lo), hi)

-----------------------------------------------------------------------------
(* Gradients and dicts.                                                    *)

NoGrad == [kind |-> "none", val |-> 0]

Dense(v) == [kind |-> "dense", val |-> v]

Sparse(v) == [kind |-> "sparse", val |-> v]

EmptyDict == << >>

Has(d, k) == k \in DOMAIN d

\* d[k] = v on a dict
Put(d, k, v) == [x \in DOMAIN d \cup {k} |-> IF x = k THEN v ELSE d[x]]

Params == {1, 2, 3}

\* the parameters the optimizer is constructed with, and their values
InitParams == << 1, 2 >>

\* the parameters of the group that add_param_group adds later
AddedParams == << 3 >>

InitValue == [q \in Params |-> CASE q = 1 -> F(1, 1) [] q = 2 -> -F(2, 1) [] q = 3 -> F(1, 2)]

-----------------------------------------------------------------------------
(* Construction.                                                           *)

\* the keyword arguments of the constructor calls the model starts from
AdaBoundConfigs ==
    LET base == [cls |-> "AdaBound", lr |-> F(1, 2), final_lr |-> F(1, 10),
                 betas |-> << F(1, 2), F(3, 4) >>, gamma |-> F(1, 10),
                 weight_decay |-> F(1, 10), weight_decouple |-> TRUE,
                 fixed_decay |-> FALSE, ams_bound |-> FALSE, adam_debias |-> FALSE,
                 eps |-> F(1, 1000), maximize |-> FALSE]
    IN  { base,
          [base EXCEPT !.fixed_decay = TRUE, !.ams_bound = TRUE],
          [base EXCEPT !.weight_decouple = FALSE, !.adam_debias = TRUE],
          [base EXCEPT !.weight_decay = 0],
          [base EXCEPT !.weight_decay = 0, !.weight_decouple = FALSE],
          [base EXCEPT !.weight_decay = 0, !.gamma = 0],
          [base EXCEPT !.maximize = TRUE],
          [base EXCEPT !.lr = 0] }

YogiConfigs ==
    LET base == [cls |-> "Yogi", lr |-> F(1, 2),
                 betas |-> << F(1, 2), F(3, 4) >>, initial_accumulator |-> F(1, 1000),
                 weight_decay |-> 0, weight_decouple |-> TRUE,
                 fixed_decay |-> FALSE, adam_debias |-> FALSE,
                 eps |-> F(1, 1000), maximize |-> FALSE]
    IN  { base,
          [base EXCEPT !.weight_decay = F(1, 10)],
          [base EXCEPT !.maximize = TRUE, !.weight_decay = F(1, 10),
                       !.weight_decouple = FALSE],
          [base EXCEPT !.maximize = TRUE, !.weight_decay = F(1, 10),
                       !.fixed_decay = TRUE, !.adam_debias = TRUE] }

Configs == AdaBoundConfigs \cup YogiConfigs

\* BaseOptimizer.validate_learning_rate, validate_betas, validate_weight_decay /
\* validate_non_negative, validate_epsilon: the range checks of construction
validate_parameters(cfg) ==
    /\ cfg.lr > 0
    /\ cfg.betas[1] >= 0 /\ cfg.betas[1] < One
    /\ cfg.betas[2] >= 0 /\ cfg.betas[2] < One
    /\ cfg.weight_decay >= 0
    /\ cfg.eps >= 0

\* the exception the constructor raises for cfg, or "none".  AdaBound.__init__
\* takes no maximize keyword and no **kwargs: passing one is a TypeError.
ConstructError(cfg) ==
    IF cfg.cls = "AdaBound" /\ cfg.maximize THEN "TypeError"
    ELSE IF ~validate_parameters(cfg) THEN "ValueError"
    ELSE "none"

\* the defaults dict the constructor hands to Optimizer.__init__
Defaults(cfg) ==
    IF cfg.cls = "AdaBound"
    THEN [lr |-> cfg.lr, betas |-> cfg.betas, final_lr |-> cfg.final_lr,
          gamma |-> cfg.gamma, weight_decay |-> cfg.weight_decay,
          weight_decouple |-> cfg.weight_decouple, fixed_decay |-> cfg.fixed_decay,
          ams_bound |-> cfg.ams_bound, adam_debias |-> cfg.adam_debias,
          eps |-> cfg.eps]
    ELSE [lr |-> cfg.lr, betas |-> cfg.betas, weight_decay |-> cfg.weight_decay,
          weight_decouple |-> cfg.weight_decouple, fixed_decay |-> cfg.fixed_decay,
          initial_accumulator |-> cfg.initial_accumulator, eps |-> cfg.eps,
          adam_debias |-> cfg.adam_debias]

\* Optimizer.add_param_group: a group is its parameters plus the defaults
NewGroup(dflt, ps) == Put(dflt, "params", ps)

Init ==
    \E cfg \in Configs :
        LET ok == ConstructError(cfg) = "none" IN
        /\ variant = cfg.cls
        /\ constructed = ok
        /\ maximize = cfg.maximize
        /\ defaults = Defaults(cfg)
        /\ param_groups = IF ok THEN << NewGroup(Defaults(cfg), InitParams) >> ELSE << >>
        /\ base_lrs = IF ok /\ cfg.cls = "AdaBound" THEN << cfg.lr >> ELSE << >>
        /\ state = [q \in Params |-> EmptyDict]
        /\ p = InitValue
        /\ grad = [q \in Params |-> NoGrad]
        /\ err = ConstructError(cfg)
        /\ last_op = "other"
        /\ visited = << >>
        /\ log = << >>

-----------------------------------------------------------------------------
(* A step() call runs on a machine record: the mutable things it touches.  *)

Machine == [groups |-> param_groups, state |-> state, p |-> p, grad |-> grad,
            err |-> "none", visited |-> << >>, log |-> << >>]

Raise(m, e) == [m EXCEPT !.err = e]

\* lines 94-97 of adabound.py, 83-87 of yogi.py: the group's counter
BumpStep(group) ==
    IF Has(group, "step") THEN Put(group, "step", group.step + 1)
    ELSE Put(group, "step", 1)

-----------------------------------------------------------------------------
(* AdaBound.step                                                           *)

\* the bound target without the rescaling by lr / base_lr
FinalLr_NotRescaled(group, base_lr) == group.final_lr

\* line 104
FinalLr(group, base_lr) == Div(Mul(group.final_lr, group.lr), base_lr)

\* lines 99-106: the scalars of one group, or the ZeroDivisionError that
\* Python's float division raises
AdaBoundScalars(group, base_lr) ==
    LET beta1 == group.betas[1]
        beta2 == group.betas[2]
        t == group.step
        bias_correction1 == One - Pow(beta1, t)
        bias_correction2_sq == Sqrt(One - Pow(beta2, t))
    IN  IF base_lr = 0 \/ group.gamma * t + One = 0 \/ group.gamma * t = 0
        THEN [err |-> "ZeroDivisionError"]
        ELSE LET final_lr == FinalLr(group, base_lr) IN
             [err |-> "none", t |-> t, beta1 |-> beta1, beta2 |-> beta2,
              bias_correction1 |-> bias_correction1,
              bias_correction2_sq |-> bias_correction2_sq,
              final_lr |-> final_lr, base_lr |-> base_lr,
              lower_bound |-> Mul(final_lr, One - Div(One, group.gamma * t + One)),
              upper_bound |-> Mul(final_lr, One + Div(One, group.gamma * t))]

\* lines 118-122: the state entry of a parameter seen for the first time
AdaBoundInitState(st, group) ==
    IF DOMAIN st # {} THEN st
    ELSE LET s2 == Put(Put(st, "exp_avg", 0), "exp_avg_sq", 0)
         IN  IF group.ams_bound THEN Put(s2, "max_exp_avg_sq", 0) ELSE s2

\* weight decay whose decoupled branch scales by lr whatever fixed_decay says
AdaBoundDecay_LrScaled(pv, gv, group) ==
    IF group.weight_decouple
    THEN [p |-> Mul(pv, One - Mul(group.weight_decay, group.lr)), grad |-> gv]
    ELSE IF group.weight_decay > 0
    THEN [p |-> pv, grad |-> gv + Mul(pv, group.weight_decay)]
    ELSE [p |-> pv, grad |-> gv]

\* lines 124-127: weight decay, on the parameter or on the gradient
AdaBoundDecay(pv, gv, group) ==
    IF group.weight_decouple
    THEN [p |-> Mul(pv, One - Mul(group.weight_decay,
                                   IF group.fixed_decay THEN One ELSE group.lr)),
          grad |-> gv]
    ELSE IF group.weight_decay > 0
    THEN [p |-> pv, grad |-> gv + Mul(pv, group.weight_decay)]
    ELSE [p |-> pv, grad |-> gv]

\* line 131
AdaBoundFirstMoment(exp_avg, gv, beta1) == Mul(exp_avg, beta1) + Mul(gv, One - beta1)

\* line 132
AdaBoundSecondMoment(exp_avg_sq, gv, beta2) ==
    Mul(exp_avg_sq, beta2) + Mul(Mul(gv, gv), One - beta2)

\* lines 143-145
AdaBoundStepSize(group, c) ==
    LET step_size == Mul(group.lr, c.bias_correction2_sq)
    IN  IF ~group.adam_debias THEN Div(step_size, c.bias_correction1) ELSE step_size

\* lines 109-150: one parameter of the loop
AdaBoundParam(m, gi, q, c) ==
    LET group == m.groups[gi] IN
    IF m.grad[q].kind = "none" THEN m
    ELSE LET m1 == [m EXCEPT !.visited = Append(@, q)] IN
    IF m.grad[q].kind = "sparse" THEN Raise(m1, "NoSparseGradientError")
    ELSE
    LET st0 == AdaBoundInitState(m.state[q], group)
        d == AdaBoundDecay(m.p[q], m.grad[q].val, group)
        has_moments == Has(st0, "exp_avg") /\ Has(st0, "exp_avg_sq")
        exp_avg == AdaBoundFirstMoment(st0.exp_avg, d.grad, c.beta1)
        exp_avg_sq == AdaBoundSecondMoment(st0.exp_avg_sq, d.grad, c.beta2)
        max_exp_avg_sq == Max(st0.max_exp_avg_sq, exp_avg_sq)
        de_nom == IF group.ams_bound THEN Sqrt(max_exp_avg_sq + group.eps)
                  ELSE Sqrt(exp_avg_sq + group.eps)
        eta == Clamp(Div(AdaBoundStepSize(group, c), de_nom),
                     c.lower_bound, c.upper_bound)
        step_size == Mul(eta, exp_avg)
        st1 == [Put(Put(st0, "exp_avg", exp_avg), "exp_avg_sq", exp_avg_sq)
                    EXCEPT !["max_exp_avg_sq"] = max_exp_avg_sq]
        st2 == IF group.ams_bound THEN st1
               ELSE Put(Put(st0, "exp_avg", exp_avg), "exp_avg_sq", exp_avg_sq)
        entry == [param |-> q, group |-> gi, t |-> c.t, lr |-> group.lr,
                  has_moments |-> has_moments, st0 |-> st0,
                  p0 |-> m.p[q], g0 |-> m.grad[q].val, g_in |-> m.grad[q].val,
                  p1 |-> d.p, g1 |-> d.grad,
                  final_lr |-> c.final_lr, base_lr |-> c.base_lr,
                  lower_bound |-> c.lower_bound, upper_bound |-> c.upper_bound,
                  eta |-> eta]
    IN  [m1 EXCEPT !.state[q] = st2,
                   !.grad[q] = Dense(d.grad),
                   !.p[q] = d.p - step_size,
                   !.log = Append(@, entry)]

RECURSIVE AdaBoundParams(_, _, _, _)
\* line 108: for p in group['params'], from the k-th on
AdaBoundParams(m, gi, k, c) ==
    IF m.err # "none" \/ k > Len(m.groups[gi].params) THEN m
    ELSE AdaBoundParams(AdaBoundParam(m, gi, m.groups[gi].params[k], c), gi, k + 1, c)

\* lines 94-150: one group of the loop
AdaBoundGroup(m, gi, base_lr) ==
    LET m1 == [m EXCEPT !.groups[gi] = BumpStep(@)]
        c == AdaBoundScalars(m1.groups[gi], base_lr)
    IN  IF c.err # "none" THEN Raise(m1, c.err)
        ELSE AdaBoundParams(m1, gi, 1, c)

RECURSIVE AdaBoundGroups(_, _, _)
\* line 93: for group, base_lr in zip(self.param_groups, self.base_lrs)
AdaBoundGroups(m, bl, gi) ==
    IF m.err # "none" \/ gi > Min(Len(m.groups), Len(bl)) THEN m
    ELSE AdaBoundGroups(AdaBoundGroup(m, gi, bl[gi]), bl, gi + 1)

\* AdaBound.step
AdaBoundStep(m, bl) == AdaBoundGroups(m, bl, 1)

-----------------------------------------------------------------------------
(* Yogi.step                                                               *)

\* BaseOptimizer.debias: 1 - beta ** step
debias(beta, t) == One - Pow(beta, t)

\* BaseOptimizer.apply_adam_debias: the step size, divided by the first bias
\* correction unless adam_debias asks to skip that
apply_adam_debias(adam_debias, step_size, bias_correction1) ==
    IF adam_debias THEN step_size ELSE Div(step_size, bias_correction1)

\* BaseOptimizer.maximize_gradient: negates the gradient in place when maximizing
maximize_gradient(gv, mx) == IF mx THEN -gv ELSE gv

\* BaseOptimizer.apply_weight_decay: the weight decay policy
apply_weight_decay(pv, gv, lr, weight_decay, weight_decouple, fixed_decay) ==
    IF weight_decay = 0 THEN [p |-> pv, grad |-> gv]
    ELSE IF weight_decouple
    THEN [p |-> Mul(pv, One - Mul(weight_decay, IF fixed_decay THEN One ELSE lr)),
          grad |-> gv]
    ELSE [p |-> pv, grad |-> gv + Mul(pv, weight_decay)]

\* What torch does with a sparse gradient that reaches the tensor arithmetic
\* of Yogi.step is not this repository's to decide: either the operations take
\* it like a dense one, or the first one that cannot raises RuntimeError.
SparseOutcomes == {"dense", "RuntimeError"}

\* lines 61-73: init_group, from the k-th parameter on
RECURSIVE YogiInitGroup(_, _, _)
YogiInitGroup(m, gi, k) ==
    LET group == m.groups[gi] IN
    IF m.err # "none" \/ k > Len(group.params) THEN m
    ELSE LET q == group.params[k] IN
         IF m.grad[q].kind = "none" THEN YogiInitGroup(m, gi, k + 1)
         ELSE LET m1 == [m EXCEPT !.visited = Append(@, q)] IN
              IF m.grad[q].kind = "sparse" THEN Raise(m1, "NoSparseGradientError")
              ELSE IF DOMAIN m.state[q] # {} THEN YogiInitGroup(m1, gi, k + 1)
              ELSE YogiInitGroup(
                     [m1 EXCEPT !.state[q] =
                          Put(Put(@, "exp_avg", group.initial_accumulator),
                              "exp_avg_sq", group.initial_accumulator)],
                     gi, k + 1)

\* lines 89-96: the scalars of one group
YogiScalars(group) ==
    LET beta1 == group.betas[1]
        beta2 == group.betas[2]
        bias_correction1 == debias(beta1, group.step)
    IN  [t |-> group.step, beta1 |-> beta1, beta2 |-> beta2,
         bias_correction1 |-> bias_correction1,
         bias_correction2_sq |-> Sqrt(debias(beta2, group.step)),
         step_size |-> apply_adam_debias(group.adam_debias, group.lr, bias_correction1)]

\* lines 102-115: the gradient is negated when maximizing, then weight decay
YogiPrepare(pv, gv, group, mx) ==
    apply_weight_decay(pv, maximize_gradient(gv, mx), group.lr, group.weight_decay,
                       group.weight_decouple, group.fixed_decay)

\* line 120
YogiFirstMoment(exp_avg, gv, beta1) == Mul(exp_avg, beta1) + Mul(gv, One - beta1)

\* the signed update with the sign taken of grad_p2 - exp_avg_sq
YogiSecondMoment_SignFlipped(exp_avg_sq, grad_p2, beta2) ==
    exp_avg_sq - Sgn(grad_p2 - exp_avg_sq) * Mul(One - beta2, grad_p2)

\* lines 121-129: exp_avg_sq += -(1 - beta2) * sign(exp_avg_sq - grad_p2) * grad_p2
YogiSecondMoment(exp_avg_sq, grad_p2, beta2) ==
    exp_avg_sq - Sgn(exp_avg_sq - grad_p2) * Mul(One - beta2, grad_p2)

\* lines 99-133: one parameter of the loop
YogiParam(m, gi, q, c, mx, oc) ==
    LET group == m.groups[gi] IN
    IF m.grad[q].kind = "none" THEN m
    ELSE
    LET kind == m.grad[q].kind
        st0 == m.state[q]
        g_in == maximize_gradient(m.grad[q].val, mx)
        d == YogiPrepare(m.p[q], m.grad[q].val, group, mx)
        coupled == ~group.weight_decouple /\ group.weight_decay # 0
        has_moments == Has(st0, "exp_avg") /\ Has(st0, "exp_avg_sq")
        entry == [param |-> q, group |-> gi, t |-> c.t, lr |-> group.lr,
                  has_moments |-> has_moments, st0 |-> st0,
                  p0 |-> m.p[q], g0 |-> m.grad[q].val, g_in |-> g_in,
                  p1 |-> d.p, g1 |-> d.grad]
        m1 == [m EXCEPT !.visited = Append(@, q), !.log = Append(@, entry)]
        \* line 104 done, line 108 raised
        m2 == [m1 EXCEPT !.grad[q] = [kind |-> kind, val |-> g_in]]
        \* lines 104-115 done
        m3 == [m1 EXCEPT !.grad[q] = [kind |-> kind, val |-> d.grad], !.p[q] = d.p]
    IN
    IF kind = "sparse" /\ oc = "RuntimeError" /\ coupled THEN Raise(m2, "RuntimeError")
    ELSE IF ~has_moments THEN Raise(m3, "KeyError")
    ELSE
    LET grad_p2 == Mul(d.grad, d.grad)
        exp_avg == YogiFirstMoment(st0.exp_avg, d.grad, c.beta1)
        exp_avg_sq == YogiSecondMoment(st0.exp_avg_sq, grad_p2, c.beta2)
        de_nom == Div(Sqrt(exp_avg_sq), c.bias_correction2_sq) + group.eps
        \* line 120 done, line 121 raised
        m4 == [m3 EXCEPT !.state[q] = Put(st0, "exp_avg", exp_avg)]
    IN
    IF kind = "sparse" /\ oc = "RuntimeError" THEN Raise(m4, "RuntimeError")
    ELSE [m3 EXCEPT !.state[q] = Put(Put(st0, "exp_avg", exp_avg),
                                     "exp_avg_sq", exp_avg_sq),
                    !.p[q] = d.p - Mul(c.step_size, Div(exp_avg, de_nom))]

RECURSIVE YogiParams(_, _, _, _, _, _)
\* line 98: for p in group['params'], from the k-th on
YogiParams(m, gi, k, c, mx, oc) ==
    IF m.err # "none" \/ k > Len(m.groups[gi].params) THEN m
    ELSE YogiParams(YogiParam(m, gi, m.groups[gi].params[k], c, mx, oc),
                    gi, k + 1, c, mx, oc)

\* lines 83-133: one group of the loop
YogiGroup(m, gi, mx, oc) ==
    LET m1 == IF ~Has(m.groups[gi], "step") THEN YogiInitGroup(m, gi, 1) ELSE m
    IN  IF m1.err # "none" THEN m1
        ELSE LET m2 == [m1 EXCEPT !.groups[gi] = BumpStep(@)]
             IN  YogiParams(m2, gi, 1, YogiScalars(m2.groups[gi]), mx, oc)

RECURSIVE YogiGroups(_, _, _, _)
\* line 82: for group in self.param_groups
YogiGroups(m, gi, mx, oc) ==
    IF m.err # "none" \/ gi > Len(m.groups) THEN m
    ELSE YogiGroups(YogiGroup(m, gi, mx, oc), gi + 1, mx, oc)

\* Yogi.step
YogiStep(m, mx, oc) == YogiGroups(m, 1, mx, oc)

-----------------------------------------------------------------------------
(* The calls.                                                              *)

\* the values a learning-rate schedule sets
LrValues == {F(1, 4)}

\* what one backward pass (or zero_grad) leaves in the parameters' .grad
GradPatterns ==
    { << NoGrad, NoGrad, NoGrad >>,
      << Dense(F(2, 1)), Dense(-F(1, 2)), Dense(F(1, 1)) >>,
      << NoGrad, Dense(F(2, 1)), NoGrad >>,
      << Dense(-F(1, 2)), Sparse(F(1, 1)), Dense(F(2, 1)) >>,
      << Sparse(F(1, 1)), Dense(F(1, 1)), NoGrad >> }

StepCount(group) == IF Has(group, "step") THEN group.step ELSE 0

\* loss.backward() / zero_grad(): the host sets every parameter's gradient
Backward ==
    /\ constructed
    /\ \E gs \in GradPatterns : grad' = [q \in Params |-> gs[q]]
    /\ grad' # grad
    /\ last_op' = "other"
    /\ err' = "none"
    /\ visited' = << >>
    /\ log' = << >>
    /\ UNCHANGED << variant, constructed, maximize, defaults, param_groups,
                    base_lrs, state, p >>

\* optimizer.step()
Step ==
    /\ constructed
    /\ \A gi \in DOMAIN param_groups : StepCount(param_groups[gi]) < MaxStep
    /\ \E oc \in SparseOutcomes :
         LET m == IF variant = "AdaBound" THEN AdaBoundStep(Machine, base_lrs)
                  ELSE YogiStep(Machine, maximize, oc)
         IN  /\ param_groups' = m.groups
             /\ state' = m.state
             /\ p' = m.p
             /\ grad' = m.grad
             /\ err' = m.err
             /\ visited' = m.visited
             /\ log' = m.log
    /\ last_op' = "step"
    /\ UNCHANGED << variant, constructed, maximize, defaults, base_lrs >>

\* lines 80-84 of adabound.py: the entry reset() leaves for one parameter
ResetState(st, group) ==
    LET s3 == Put(Put(Put(st, "step", 0), "exp_avg", 0), "exp_avg_sq", 0)
    IN  IF group.ams_bound THEN Put(s3, "max_exp_avg_sq", 0) ELSE s3

\* the group that holds parameter q, 0 when none does
GroupOf(groups, q) ==
    IF \E gi \in DOMAIN groups : \E k \in DOMAIN groups[gi].params : groups[gi].params[k] = q
    THEN CHOOSE gi \in DOMAIN groups : \E k \in DOMAIN groups[gi].params : groups[gi].params[k] = q
    ELSE 0

\* AdaBound.reset(); Yogi defines none
Reset ==
    /\ constructed
    /\ variant = "AdaBound"
    /\ last_op # "reset"
    /\ state' = [q \in Params |->
                   IF GroupOf(param_groups, q) = 0 THEN state[q]
                   ELSE ResetState(state[q], param_groups[GroupOf(param_groups, q)])]
    /\ last_op' = "reset"
    /\ err' = "none"
    /\ visited' = << >>
    /\ log' = << >>
    /\ UNCHANGED << variant, constructed, maximize, defaults, param_groups,
                    base_lrs, p, grad >>

\* a learning-rate schedule: group['lr'] = v between two steps
SetLr ==
    /\ constructed
    /\ \E gi \in DOMAIN param_groups : \E v \in LrValues :
         /\ param_groups[gi].lr # v
         /\ param_groups' = [param_groups EXCEPT ![gi] = Put(@, "lr", v)]
    /\ last_op' = "other"
    /\ err' = "none"
    /\ visited' = << >>
    /\ log' = << >>
    /\ UNCHANGED << variant, constructed, maximize, defaults, base_lrs, state, p, grad >>

\* Optimizer.add_param_group: a second group, after construction
AddParamGroup ==
    /\ constructed
    /\ Len(param_groups) = 1
    /\ param_groups' = Append(param_groups, NewGroup(defaults, AddedParams))
    /\ last_op' = "other"
    /\ err' = "none"
    /\ visited' = << >>
    /\ log' = << >>
    /\ UNCHANGED << variant, constructed, maximize, defaults, base_lrs, state, p, grad >>

\* optimizer.init_group(group): Yogi's public method (yogi.py lines 60-73),
\* called by the host on one of the groups; AdaBound defines none
InitGroup ==
    /\ constructed
    /\ variant = "Yogi"
    /\ \E gi \in DOMAIN param_groups :
         LET m == YogiInitGroup(Machine, gi, 1)
         IN  /\ state' = m.state
             /\ err' = m.err
    /\ last_op' = "other"
    /\ visited' = << >>
    /\ log' = << >>
    /\ UNCHANGED << variant, constructed, maximize, defaults, param_groups,
                    base_lrs, p, grad >>

Next == Backward \/ Step \/ Reset \/ SetLr \/ AddParamGroup \/ InitGroup

Spec == Init /\ [][Next]_vars

-----------------------------------------------------------------------------
(* The claims.                                                             *)

Range(seq) == {seq[i] : i \in DOMAIN seq}

\* C1: every parameter whose gradient is defined at a step has a state entry
\* with a first-moment and a second-moment accumulator when its update is
\* applied in that step, also when its gradient was absent on the group's
\* first step.
C1_StateBeforeUpdate == \A i \in DOMAIN log : log[i].has_moments

\* C2: on every step() call, a parameter with a sparse gradient that step()
\* comes to makes it raise NoSparseGradientError, with that parameter's state
\* entry, gradient and value as they were before the call.
C2_SparseRejected ==
    [][ last_op' = "step" =>
          \A q \in Range(visited') :
              grad[q].kind = "sparse" =>
                  /\ err' = "NoSparseGradientError"
                  /\ state'[q] = state[q]
                  /\ grad'[q] = grad[q]
                  /\ p'[q] = p[q] ]_vars

\* C3: a completed step() call takes the counter of every group the optimizer
\* holds from absent to 1, or up by exactly 1.
C3_CounterAdvances ==
    [][ (last_op' = "step" /\ err' = "none") =>
          \A gi \in DOMAIN param_groups :
              /\ Has(param_groups'[gi], "step")
              /\ param_groups'[gi].step = StepCount(param_groups[gi]) + 1 ]_vars

\* C4: after reset() every accumulator is at its construction-time default and
\* the counter that step() reads for the bias corrections and the bounds is
\* zero, so that the next step() runs with t = 1.
C4_ResetZeroesCounter ==
    last_op = "reset" =>
        /\ \A q \in Params :
               GroupOf(param_groups, q) # 0 =>
                   state[q].exp_avg = 0 /\ state[q].exp_avg_sq = 0
        /\ \A gi \in DOMAIN param_groups : StepCount(param_groups[gi]) = 0

\* C5: with the maximize flag set, either variant is an optimizer whose every
\* update, on every step(), is computed from the negated gradient.
C5_MaximizeBothVariants ==
    maximize =>
        /\ constructed
        /\ \A i \in DOMAIN log : log[i].g_in = -log[i].g0

\* C6: the weight decay of a step: none with weight_decay = 0; decoupled, the
\* parameter times 1 - weight_decay * (1 if fixed_decay else lr) and the
\* gradient untouched; coupled, weight_decay * parameter added to the gradient
\* the moments are updated from, and the parameter not shrunk.
C6_WeightDecayPolicy ==
    \A i \in DOMAIN log :
        LET e == log[i]
            group == param_groups[e.group]
            wd == group.weight_decay
        IN  /\ wd = 0 => e.p1 = e.p0 /\ e.g1 = e.g_in
            /\ (wd # 0 /\ group.weight_decouple) =>
                   /\ e.p1 = Mul(e.p0, One - Mul(wd, IF group.fixed_decay THEN One
                                                     ELSE group.lr))
                   /\ e.g1 = e.g_in
            /\ (wd # 0 /\ ~group.weight_decouple) =>
                   /\ e.g1 = e.g_in + Mul(e.p0, wd)
                   /\ e.p1 = e.p0
            /\ (err = "none" /\ e.has_moments) => grad[e.param].val = e.g1

\* AdaBound with fixed decoupled decay shrank a parameter by 1 - weight_decay
\* under a learning rate other than the one it was constructed with
C6_Witness ==
    /\ variant = "AdaBound" /\ last_op = "step" /\ err = "none"
    /\ \E i \in DOMAIN log :
           LET e == log[i]
               group == param_groups[e.group]
           IN  /\ group.weight_decouple /\ group.fixed_decay
               /\ group.weight_decay = F(1, 10)
               /\ group.lr # base_lrs[e.group]
               /\ e.p0 # 0
               /\ e.p1 = Mul(e.p0, F(9, 10))

\* C7: with no sparse gradient, step() raises nothing.
C7_StepRaisesNothing ==
    (last_op = "step" /\ \A q \in Params : grad[q].kind # "sparse") => err = "none"

\* C8: a change of a group's learning rate between two steps leaves every
\* counter, accumulator and parameter alone, and the next step() decays by the
\* new value and, in AdaBound, bounds by final_lr * lr / base_lr with the new
\* lr and the base_lr of construction.
C8_LrChangeObserved ==
    /\ [][ (Len(param_groups') = Len(param_groups)
            /\ \E gi \in DOMAIN param_groups :
                   param_groups'[gi].lr # param_groups[gi].lr) =>
             /\ state' = state
             /\ p' = p
             /\ \A gi \in DOMAIN param_groups :
                    /\ Has(param_groups'[gi], "step") = Has(param_groups[gi], "step")
                    /\ StepCount(param_groups'[gi]) = StepCount(param_groups[gi]) ]_vars
    /\ [][ last_op' = "step" =>
             \A i \in DOMAIN log' :
                 LET e == log'[i]
                     group == param_groups[e.group]
                 IN  /\ e.lr = group.lr
                     /\ e.t = StepCount(group) + 1
                     /\ (group.weight_decay # 0 /\ group.weight_decouple
                         /\ ~group.fixed_decay) =>
                            e.p1 = Mul(e.p0, One - Mul(group.weight_decay, group.lr))
                     /\ variant = "AdaBound" =>
                            /\ e.base_lr = defaults.lr
                            /\ e.final_lr =
                                   Div(Mul(group.final_lr, group.lr), defaults.lr) ]_vars

\* AdaBound updated a parameter at t = 2 under a learning rate changed after
\* the first step, with the bound target rescaled
C8_Witness ==
    /\ variant = "AdaBound" /\ last_op = "step" /\ err = "none"
    /\ \E i \in DOMAIN log :
           LET e == log[i] IN
           /\ e.t = 2
           /\ e.lr = F(1, 4)
           /\ e.base_lr = F(1, 2)
           /\ e.final_lr # param_groups[e.group].final_lr
           /\ DOMAIN e.st0 # {}
           /\ e.st0.exp_avg # 0

\* C9: a step() call with every gradient absent, once it has returned, has
\* changed no parameter and no state entry and has advanced the counter of
\* every group by 1.
C9_NoGradStep ==
    [][ (last_op' = "step" /\ err' = "none"
         /\ \A q \in Params : grad[q].kind = "none") =>
          /\ p' = p
          /\ state' = state
          /\ grad' = grad
          /\ \A gi \in DOMAIN param_groups :
                 /\ Has(param_groups'[gi], "step")
                 /\ param_groups'[gi].step = StepCount(param_groups[gi]) + 1 ]_vars

\* C10: no second-moment accumulator is ever negative.
C10_SecondMomentNonNegative ==
    \A q \in Params :
        /\ Has(state[q], "exp_avg_sq") => state[q].exp_avg_sq >= 0
        /\ Has(state[q], "max_exp_avg_sq") => state[q].max_exp_avg_sq >= 0

\* Yogi's signed update has taken an accumulator down: the squared gradient
\* was below it
C10_Witness ==
    /\ variant = "Yogi" /\ last_op = "step" /\ err = "none"
    /\ \E i \in DOMAIN log :
           LET e == log[i] IN
           /\ e.has_moments
           /\ e.g1 # 0
           /\ Mul(e.g1, e.g1) < e.st0.exp_avg_sq
           /\ state[e.param].exp_avg_sq < e.st0.exp_avg_sq

\* the scalars AdaBound.step computed for the group one step earlier
PreviousScalars(group, base_lr, t) ==
    AdaBoundScalars(Put(group, "step", t - 1), base_lr)

\* C11: AdaBound with gamma > 0, final_lr > 0 and the learning rate still the
\* one of construction: the per-element step size that multiplies the first
\* moment lies between the step's lower and upper bound, the bounds enclose
\* final_lr, and from one step to the next the lower bound does not fall and
\* the upper bound does not rise.
C11_StepSizeWithinBounds ==
    \A i \in DOMAIN log :
        LET e == log[i]
            group == param_groups[e.group]
        IN  (variant = "AdaBound" /\ group.gamma > 0 /\ group.final_lr > 0
             /\ e.lr = e.base_lr) =>
                /\ e.t >= 1
                /\ e.lower_bound <= e.eta
                /\ e.eta <= e.upper_bound
                /\ e.lower_bound <= group.final_lr
                /\ group.final_lr <= e.upper_bound
                /\ e.t >= 2 =>
                       LET prev == PreviousScalars(group, e.base_lr, e.t) IN
                       /\ prev.lower_bound <= e.lower_bound
                       /\ e.upper_bound <= prev.upper_bound

\* AdaBound's second step under an unchanged learning rate cut a step size
\* down to an upper bound that is tighter than the one of the first step
C11_Witness ==
    /\ variant = "AdaBound" /\ last_op = "step" /\ err = "none"
    /\ \E i \in DOMAIN log :
           LET e == log[i]
               group == param_groups[e.group]
           IN  /\ e.t = 2
               /\ e.lr = e.base_lr
               /\ group.gamma > 0
               /\ e.eta = e.upper_bound
               /\ e.lower_bound < e.upper_bound
               /\ e.upper_bound < PreviousScalars(group, e.base_lr, e.t).upper_bound
               /\ PreviousScalars(group, e.base_lr, e.t).lower_bound < e.lower_bound
               /\ state[e.param].exp_avg # 0

====
